---- MODULE Spec2Model ----
(***************************************************************************)
(* Computation<I, O> (src/src/computation.ts): an arrow over functions     *)
(* I -> Promise<O>.  A Computation is an immutable term; `run` is the      *)
(* function the constructor stored.  The model executes run functions on   *)
(* top of the host's promise machinery: a heap of promises, each with its  *)
(* list of registered reactions, and the FIFO queue of reaction jobs.      *)
(* The leaves' wrapped functions are the environment: an invocation        *)
(* returns a pending promise which the environment later resolves or       *)
(* rejects.                                                                *)
(***************************************************************************)
EXTENDS Integers, Sequences, FiniteSets, TLC

\* How many times `run` is called on the pipelines in one behaviour.
MaxRuns == 2

\* The host drains its job queue between tasks: callers and leaf operations
\* act only while fewer than MaxJobs reaction jobs are waiting.
MaxJobs == 2

\* Plain inputs are 1..MaxInput.
MaxInput == 1

\* The pipelines run in one behaviour are built from at most MaxLeaves leaf
\* computations in all, a pipeline counted once for each of its runs.
MaxLeaves == 4

VARIABLES
    program,    \* index in Programs of the pipelines this behaviour runs
    runs,       \* the calls of c.run(input) made so far:
                \*   [c, input, p, threw, error]
    promises,   \* the promise heap: [st, val, rs, elems]
    jobs,       \* the queue of promise reaction jobs
    calls,      \* invocations of leaf wrapped functions:
                \*   [leaf, arg, p, rid, out, at]
    counter,    \* the shared counter leaf "c" increments
    applied,    \* invocations of mappers and mergers: [mapper, arg, rid, threw]
    built       \* how many of the program's pipelines have been constructed

vars == <<program, runs, promises, jobs, calls, counter, applied, built>>

----------------------------------------------------------------------------
\* Values

Left(v)  == [kind |-> "LEFT", value |-> v]
Right(v) == [kind |-> "RIGHT", value |-> v]

\* Computation terms: what the constructor and the combinators build.
Leaf(n)      == [op |-> "leaf", name |-> n]
branch(a, b) == [op |-> "branch", this |-> a, computation |-> b]
pair(a, b)   == [op |-> "pair", this |-> a, computation |-> b]
andThen(a, b) == [op |-> "andThen", this |-> a, computation |-> b]
second(c)    == [op |-> "second", computation |-> c]
first(c)     == [op |-> "first", computation |-> c]
split(c)     == [op |-> "split", computation |-> c]
add(a, b)    == [op |-> "add", this |-> a, computation |-> b]
fanIn(a, b)  == [op |-> "fanIn", this |-> a, computation |-> b]

\* The leaves' wrapped functions.  "a" and "b" are pure; "c" increments the
\* shared counter on each invocation and yields the value it reached.
LeafOut(name, arg, cnt) ==
    CASE name = "a" -> arg + 10
      [] name = "b" -> arg + 20
      [] name = "c" -> cnt

\* The error the i-th leaf invocation fails with, if it fails.
LeafErr(name, i) == <<"error", name, i>>

\* The mappers and mergers: pure functions of the caller.  "gf" is
\* x => g(f(x)); "boom" throws on every argument; the mergers "plus" and
\* "sub" take their two arguments as a pair.
Mapped(mapper, x) ==
    CASE mapper = "f"  -> x + 1
      [] mapper = "g"  -> 2 * x
      [] mapper = "gf" -> 2 * (x + 1)
      [] mapper = "boom" -> 0
      [] mapper = "plus" -> x[1] + x[2]
      [] mapper = "sub"  -> x[1] - x[2]
Throws(mapper) == mapper = "boom"

\* The error the k-th mapper invocation throws, if it throws.
MapErr(mapper, k) == <<"error", mapper, k>>

mapOutput(c, mapper) == [op |-> "mapOutput", this |-> c, mapper |-> mapper]
mapInput(c, mapper) == [op |-> "mapInput", this |-> c, mapper |-> mapper]
left(c) == [op |-> "left", computation |-> c]
right(c) == [op |-> "right", computation |-> c]
merge(merger) == [op |-> "merge", merger |-> merger]

Plain == 1..MaxInput
Tuples == {<<x, x + 5>> : x \in Plain}
Eithers == {Left(x) : x \in Plain} \cup {Right(x) : x \in Plain}

A == Leaf("a")
B == Leaf("b")
C == Leaf("c")

\* A program is the pipelines a caller has built, each with the inputs it
\* is run on.  The pipelines of one program share their leaves.
Programs == <<
    << [c |-> branch(A, B),  inputs |-> Plain] >>,
    << [c |-> pair(A, B),    inputs |-> Tuples] >>,
    << [c |-> andThen(A, B), inputs |-> Plain] >>,
    << [c |-> split(C),      inputs |-> Plain],
       [c |-> branch(C, C),  inputs |-> Plain] >>,
    << [c |-> add(A, B),     inputs |-> Eithers] >>,
    << [c |-> fanIn(A, B),   inputs |-> Eithers] >>,
    << [c |-> first(A),      inputs |-> Tuples] >>,
    << [c |-> second(A),     inputs |-> {<<x[2], x[1]>> : x \in Tuples}] >>,
    << [c |-> mapOutput(A, "f"),    inputs |-> Plain],
       [c |-> mapOutput(A, "boom"), inputs |-> Plain] >>,
    << [c |-> mapOutput(mapOutput(A, "f"), "g"), inputs |-> Plain],
       [c |-> mapOutput(A, "gf"),   inputs |-> Plain] >>,
    << [c |-> mapInput(A, "f"),     inputs |-> Plain],
       [c |-> mapInput(A, "boom"),  inputs |-> Plain],
       [c |-> andThen(A, mapInput(B, "boom")), inputs |-> Plain] >>,
    << [c |-> merge("plus"),        inputs |-> {<<2, 3>>}],
       [c |-> merge("sub"),         inputs |-> Tuples] >>,
    << [c |-> andThen(branch(A, B), merge("sub")), inputs |-> Plain] >>,
    << [c |-> left(A),              inputs |-> Eithers],
       [c |-> right(A),             inputs |-> Eithers] >>,
    << [c |-> andThen(andThen(split(A), merge("plus")), B), inputs |-> Plain],
       [c |-> andThen(split(A), andThen(merge("plus"), B)), inputs |-> Plain] >>
>>

pipelines == Programs[program]

----------------------------------------------------------------------------
\* Promises

\* A reaction job: the reaction r and the settlement it reacts to.  Values
\* are of several kinds; two jobs for the same reaction carry the same kind.
Job(r, st, val) == [r |-> r, st |-> st, val |-> val]

PendingPromise == [st |-> "pending", val |-> 0, rs |-> <<>>, elems |-> <<>>]

RECURSIVE JobsFor(_, _, _)
JobsFor(rs, st, val) ==
    IF rs = <<>> THEN <<>>
    ELSE <<Job(Head(rs), st, val)>> \o JobsFor(Tail(rs), st, val)

\* A heap h is [promises, jobs, calls, counter, applied].
NewPromise(h) == [h EXCEPT !.promises = Append(@, PendingPromise)]
LastPromise(h) == Len(h.promises)

\* Settle promise p: its reactions become jobs, in registration order.  A
\* promise that is already settled stays as it is.
SettlePromise(h, p, st, val) ==
    IF h.promises[p].st # "pending" THEN h
    ELSE [h EXCEPT !.promises[p].st = st,
                   !.promises[p].val = val,
                   !.promises[p].rs = <<>>,
                   !.jobs = @ \o JobsFor(h.promises[p].rs, st, val)]

\* p.then(reaction): registered while p is pending, queued at once otherwise.
Then(h, p, r) ==
    IF h.promises[p].st = "pending"
    THEN [h EXCEPT !.promises[p].rs = Append(@, r)]
    ELSE [h EXCEPT !.jobs = Append(@, Job(r, h.promises[p].st, h.promises[p].val))]

Reject(h, p, error) == SettlePromise(h, p, "rejected", error)
Fulfil(h, p, value) == SettlePromise(h, p, "fulfilled", value)

----------------------------------------------------------------------------
\* The run functions.  run(c, input, rid, h) is the synchronous part of
\* c.run(input) in heap h: it yields the heap afterwards and the promise
\* returned, [h, p], or, when the call throws, the heap and the exception,
\* [h, error].  rid names the top-level run the call belongs to; the code
\* does not have it, it only labels the logs.

RECURSIVE run(_, _, _, _)

Threw(r) == "error" \in DOMAIN r

\* An exception inside an async function rejects the promise it returned.
AsyncThrow(r, P) == [h |-> Reject(r.h, P, r.error), p |-> P]

\* mapper(arg), called on behalf of run rid: the heap with the invocation
\* logged and the value returned, [h, val], or the exception, [h, error].
apply(mapper, arg, rid, h) ==
    LET h1 == [h EXCEPT !.applied = Append(@,
                  [mapper |-> mapper, arg |-> arg, rid |-> rid,
                   threw |-> Throws(mapper)])]
    IN  IF Throws(mapper)
        THEN [h |-> h1, error |-> MapErr(mapper, Len(h1.applied))]
        ELSE [h |-> h1, val |-> Mapped(mapper, arg)]

\* runLeaf keeping the promise of an earlier invocation on the same input.
runLeafMemo(c, input, rid, h) ==
    LET cnt == IF c.name = "c" THEN h.counter + 1 ELSE h.counter
        h1  == NewPromise(h)
        p   == LastPromise(h1)
        call == [leaf |-> c.name, arg |-> input, p |-> p, rid |-> rid,
                 out |-> LeafOut(c.name, input, cnt), at |-> 0]
        old == {i \in 1..Len(h.calls) :
                   h.calls[i].leaf = c.name /\ h.calls[i].arg = input}
    IN  IF old # {} THEN [h |-> h, p |-> h.calls[CHOOSE i \in old : TRUE].p]
        ELSE [h |-> [h1 EXCEPT !.counter = cnt, !.calls = Append(@, call)],
              p |-> p]

\* new Computation(fun).run(input): the wrapped function is invoked.
runLeaf(c, input, rid, h) ==
    LET cnt == IF c.name = "c" THEN h.counter + 1 ELSE h.counter
        h1  == NewPromise(h)
        p   == LastPromise(h1)
        call == [leaf |-> c.name, arg |-> input, p |-> p, rid |-> rid,
                 out |-> LeafOut(c.name, input, cnt), at |-> 0]
    IN  [h |-> [h1 EXCEPT !.counter = cnt, !.calls = Append(@, call)],
         p |-> p]

\* branch: async input => { const result1 = await this.run(input); ...
runBranch(c, input, rid, h) ==
    LET h0 == NewPromise(h)
        P  == LastPromise(h0)
        r1 == run(c.this, input, rid, h0)
    IN  IF Threw(r1) THEN AsyncThrow(r1, P) ELSE
        [h |-> Then(r1.h, r1.p, [k |-> "branch1", computation |-> c.computation,
                                 input |-> input, out |-> P, rid |-> rid]),
         p |-> P]

\* runPair as a sequential await: the second operand is started only after
\* the first has resolved.
runPairSequential(c, input, rid, h) ==
    LET h0 == NewPromise(h)
        P  == LastPromise(h0)
        r1 == run(c.this, input[1], rid, h0)
    IN  IF Threw(r1) THEN AsyncThrow(r1, P) ELSE
        [h |-> Then(r1.h, r1.p, [k |-> "branch1", computation |-> c.computation,
                                 input |-> input[2], out |-> P, rid |-> rid]),
         p |-> P]

\* pair: input => Promise.all([this.run(input[0]), computation.run(input[1])])
runPair(c, input, rid, h) ==
    LET r1 == run(c.this, input[1], rid, h)
        r2 == run(c.computation, input[2], rid, r1.h)
        h3 == [r2.h EXCEPT !.promises = Append(@,
                  [PendingPromise EXCEPT !.elems =
                      [i \in 1..2 |-> [done |-> FALSE, value |-> 0]]])]
        P  == LastPromise(h3)
        h4 == Then(h3, r1.p, [k |-> "all", idx |-> 1, out |-> P, rid |-> rid])
    IN  IF Threw(r1) THEN r1 ELSE IF Threw(r2) THEN r2 ELSE
        [h |-> Then(h4, r2.p, [k |-> "all", idx |-> 2, out |-> P, rid |-> rid]),
         p |-> P]

\* runAndThen starting the second stage at once, on the pipeline's input.
runAndThenEager(c, input, rid, h) ==
    LET r1 == run(c.this, input, rid, h)
    IN  IF Threw(r1) THEN r1 ELSE run(c.computation, input, rid, r1.h)

\* andThen: input => this.run(input).then(output => computation.run(output))
runAndThen(c, input, rid, h) ==
    LET r1 == run(c.this, input, rid, h)
        h1 == NewPromise(r1.h)
        P  == LastPromise(h1)
    IN  IF Threw(r1) THEN r1 ELSE
        [h |-> Then(h1, r1.p, [k |-> "andThen", computation |-> c.computation,
                               out |-> P, rid |-> rid]),
         p |-> P]

\* second: input => computation.run(input[1]).then(output => [input[0], output])
runSecond(c, input, rid, h) ==
    LET r  == run(c.computation, input[2], rid, h)
        h1 == NewPromise(r.h)
        P  == LastPromise(h1)
    IN  IF Threw(r) THEN r ELSE
        [h |-> Then(h1, r.p, [k |-> "second", input |-> input, out |-> P,
                              rid |-> rid]),
         p |-> P]

\* first: input => computation.run(input[0]).then(output => [output, input[1]])
runFirst(c, input, rid, h) ==
    LET r  == run(c.computation, input[1], rid, h)
        h1 == NewPromise(r.h)
        P  == LastPromise(h1)
    IN  IF Threw(r) THEN r ELSE
        [h |-> Then(h1, r.p, [k |-> "first", input |-> input, out |-> P,
                              rid |-> rid]),
         p |-> P]

\* runSplit as computation.branch(computation): the side effect twice.
runSplitTwice(c, input, rid, h) ==
    runBranch([op |-> "branch", this |-> c.computation,
               computation |-> c.computation], input, rid, h)

\* split: async input => { const result = await computation.run(input); ...
runSplit(c, input, rid, h) ==
    LET h0 == NewPromise(h)
        P  == LastPromise(h0)
        r  == run(c.computation, input, rid, h0)
    IN  IF Threw(r) THEN AsyncThrow(r, P) ELSE
        [h |-> Then(r.h, r.p, [k |-> "split", out |-> P, rid |-> rid]),
         p |-> P]

\* add: async input => { switch (input.kind) { case 'LEFT': await this.run ...
runAdd(c, input, rid, h) ==
    LET h0 == NewPromise(h)
        P  == LastPromise(h0)
    IN  IF input.kind = "LEFT"
        THEN LET r == run(c.this, input.value, rid, h0)
             IN  IF Threw(r) THEN AsyncThrow(r, P) ELSE
                 [h |-> Then(r.h, r.p, [k |-> "addLeft", out |-> P, rid |-> rid]),
                  p |-> P]
        ELSE LET r == run(c.computation, input.value, rid, h0)
             IN  IF Threw(r) THEN AsyncThrow(r, P) ELSE
                 [h |-> Then(r.h, r.p, [k |-> "addRight", out |-> P, rid |-> rid]),
                  p |-> P]

\* runFanIn with case 'LEFT' falling through into case 'RIGHT'.
runFanInFallThrough(c, input, rid, h) ==
    IF input.kind = "LEFT"
    THEN LET r1 == run(c.this, input.value, rid, h)
         IN  IF Threw(r1) THEN r1 ELSE run(c.computation, input.value, rid, r1.h)
    ELSE run(c.computation, input.value, rid, h)

\* fanIn: input => { switch (input.kind) { case 'LEFT': return this.run ...
runFanIn(c, input, rid, h) ==
    IF input.kind = "LEFT"
    THEN run(c.this, input.value, rid, h)
    ELSE run(c.computation, input.value, rid, h)

\* mapOutput: input => this.run(input).then(result => mapper(result))
runMapOutput(c, input, rid, h) ==
    LET r  == run(c.this, input, rid, h)
        h1 == NewPromise(r.h)
        P  == LastPromise(h1)
    IN  IF Threw(r) THEN r ELSE
        [h |-> Then(h1, r.p, [k |-> "mapOutput", mapper |-> c.mapper,
                              out |-> P, rid |-> rid]),
         p |-> P]

\* mapInput: input => this.run(mapper(input)).  The function is not async:
\* an exception of the mapper leaves run(input) as an exception.
runMapInput(c, input, rid, h) ==
    LET m == apply(c.mapper, input, rid, h)
    IN  IF Threw(m) THEN [h |-> m.h, error |-> m.error]
        ELSE run(c.this, m.val, rid, m.h)

\* left: async input => { switch (input.kind) {
\*   case 'LEFT':  const result1 = await computation.run(input.value); ...
\*   case 'RIGHT': const result2 = await Promise.resolve(input.value); ...
runOfLeft(c, input, rid, h) ==
    LET h0 == NewPromise(h)
        P  == LastPromise(h0)
    IN  IF input.kind = "LEFT"
        THEN LET r == run(c.computation, input.value, rid, h0)
             IN  IF Threw(r) THEN AsyncThrow(r, P) ELSE
                 [h |-> Then(r.h, r.p, [k |-> "leftRun", out |-> P, rid |-> rid]),
                  p |-> P]
        ELSE LET h1 == NewPromise(h0)
                 Q  == LastPromise(h1)
             IN  [h |-> Then(Fulfil(h1, Q, input.value), Q,
                             [k |-> "leftPass", out |-> P, rid |-> rid]),
                  p |-> P]

\* runOfRight running the computation on the LEFT side.
runOfRightOnLeft(c, input, rid, h) ==
    LET h0 == NewPromise(h)
        P  == LastPromise(h0)
    IN  IF input.kind = "LEFT"
        THEN LET r == run(c.computation, input.value, rid, h0)
             IN  IF Threw(r) THEN AsyncThrow(r, P) ELSE
                 [h |-> Then(r.h, r.p, [k |-> "rightRun", out |-> P, rid |-> rid]),
                  p |-> P]
        ELSE LET h1 == NewPromise(h0)
                 Q  == LastPromise(h1)
             IN  [h |-> Then(Fulfil(h1, Q, input.value), Q,
                             [k |-> "rightPass", out |-> P, rid |-> rid]),
                  p |-> P]

\* right: async input => { switch (input.kind) {
\*   case 'LEFT':  const result1 = await Promise.resolve(input.value); ...
\*   case 'RIGHT': const result2 = await computation.run(input.value); ...
runOfRight(c, input, rid, h) ==
    LET h0 == NewPromise(h)
        P  == LastPromise(h0)
    IN  IF input.kind = "RIGHT"
        THEN LET r == run(c.computation, input.value, rid, h0)
             IN  IF Threw(r) THEN AsyncThrow(r, P) ELSE
                 [h |-> Then(r.h, r.p, [k |-> "rightRun", out |-> P, rid |-> rid]),
                  p |-> P]
        ELSE LET h1 == NewPromise(h0)
                 Q  == LastPromise(h1)
             IN  [h |-> Then(Fulfil(h1, Q, input.value), Q,
                             [k |-> "rightPass", out |-> P, rid |-> rid]),
                  p |-> P]

\* runMerge handing the merger its arguments in the other order.
runMergeSwapped(c, input, rid, h) ==
    LET m  == apply(c.merger, <<input[2], input[1]>>, rid, h)
        h1 == NewPromise(m.h)
        P  == LastPromise(h1)
    IN  IF Threw(m) THEN [h |-> m.h, error |-> m.error]
        ELSE [h |-> Fulfil(h1, P, m.val), p |-> P]

\* merge: (input: [I1, I2]) => Promise.resolve(merger(input[0], input[1]))
runMerge(c, input, rid, h) ==
    LET m  == apply(c.merger, <<input[1], input[2]>>, rid, h)
        h1 == NewPromise(m.h)
        P  == LastPromise(h1)
    IN  IF Threw(m) THEN [h |-> m.h, error |-> m.error]
        ELSE [h |-> Fulfil(h1, P, m.val), p |-> P]

\* runLeft: computation.run({ kind: 'LEFT', value })
runLeft(c, value, rid, h) == run(c, Left(value), rid, h)

\* runRight: computation.run({ kind: 'RIGHT', value })
runRight(c, value, rid, h) == run(c, Right(value), rid, h)

run(c, input, rid, h) ==
    CASE c.op = "leaf"    -> runLeaf(c, input, rid, h)
      [] c.op = "branch"  -> runBranch(c, input, rid, h)
      [] c.op = "pair"    -> runPair(c, input, rid, h)
      [] c.op = "andThen" -> runAndThen(c, input, rid, h)
      [] c.op = "second"  -> runSecond(c, input, rid, h)
      [] c.op = "first"   -> runFirst(c, input, rid, h)
      [] c.op = "split"   -> runSplit(c, input, rid, h)
      [] c.op = "add"     -> runAdd(c, input, rid, h)
      [] c.op = "fanIn"   -> runFanIn(c, input, rid, h)
      [] c.op = "mapOutput" -> runMapOutput(c, input, rid, h)
      [] c.op = "mapInput" -> runMapInput(c, input, rid, h)
      [] c.op = "left"    -> runOfLeft(c, input, rid, h)
      [] c.op = "right"   -> runOfRight(c, input, rid, h)
      [] c.op = "merge"   -> runMerge(c, input, rid, h)

----------------------------------------------------------------------------
\* The reaction jobs: what runs when an awaited promise has settled.  Each
\* takes the heap with the job already dequeued and the job j = [r, st, val].

\* branchAwait1 failing with an error of its own when the first operand fails.
branchAwait1Wrap(h, j) ==
    IF j.st = "rejected" THEN Reject(h, j.r.out, <<"error", "branch", 0>>)
    ELSE LET r2 == run(j.r.computation, j.r.input, j.r.rid, h)
         IN  IF Threw(r2) THEN Reject(r2.h, j.r.out, r2.error) ELSE
             Then(r2.h, r2.p, [k |-> "branch2", result1 |-> j.val,
                               out |-> j.r.out, rid |-> j.r.rid])

\* branch, after `await this.run(input)`:
\*   const result2 = await computation.run(input);
branchAwait1(h, j) ==
    IF j.st = "rejected" THEN Reject(h, j.r.out, j.val)
    ELSE LET r2 == run(j.r.computation, j.r.input, j.r.rid, h)
         IN  IF Threw(r2) THEN Reject(r2.h, j.r.out, r2.error) ELSE
             Then(r2.h, r2.p, [k |-> "branch2", result1 |-> j.val,
                               out |-> j.r.out, rid |-> j.r.rid])

\* branchAwait2 with the two slots exchanged.
branchAwait2Swapped(h, j) ==
    IF j.st = "rejected" THEN Reject(h, j.r.out, j.val)
    ELSE Fulfil(h, j.r.out, <<j.val, j.r.result1>>)

\* branch, after `await computation.run(input)`: return [result1, result2];
branchAwait2(h, j) ==
    IF j.st = "rejected" THEN Reject(h, j.r.out, j.val)
    ELSE Fulfil(h, j.r.out, <<j.r.result1, j.val>>)

\* allElement waiting for every element to settle and then reporting the
\* failure of the leftmost failed one.
allElementLeftFirst(h, j) ==
    LET h1 == [h EXCEPT !.promises[j.r.out].elems[j.r.idx] =
                            [done |-> TRUE, value |-> j.val,
                             failed |-> j.st = "rejected"]]
        elems == h1.promises[j.r.out].elems
        failures == {i \in 1..Len(elems) : elems[i].failed}
    IN  IF \E i \in 1..Len(elems) : ~elems[i].done THEN h1
        ELSE IF failures # {}
        THEN Reject(h1, j.r.out,
                    elems[CHOOSE i \in failures : \A k \in failures : i <= k].value)
        ELSE Fulfil(h1, j.r.out, [i \in 1..Len(elems) |-> elems[i].value])

\* Promise.all's reaction to its idx-th element.
allElement(h, j) ==
    IF j.st = "rejected" THEN Reject(h, j.r.out, j.val)
    ELSE LET h1 == [h EXCEPT !.promises[j.r.out].elems[j.r.idx] =
                                 [done |-> TRUE, value |-> j.val]]
             elems == h1.promises[j.r.out].elems
         IN  IF \A i \in 1..Len(elems) : elems[i].done
             THEN Fulfil(h1, j.r.out, [i \in 1..Len(elems) |-> elems[i].value])
             ELSE h1

\* andThenHandler catching the first stage's failure instead of passing it on.
andThenHandlerSwallow(h, j) ==
    IF j.st = "rejected" THEN Fulfil(h, j.r.out, j.val)
    ELSE LET r2 == run(j.r.computation, j.val, j.r.rid, h)
         IN  IF Threw(r2) THEN Reject(r2.h, j.r.out, r2.error) ELSE
             [r2.h EXCEPT !.jobs = Append(@,
                 Job([k |-> "thenable", out |-> j.r.out, rid |-> j.r.rid],
                     "fulfilled", r2.p))]

\* andThenHandler running the computation without returning its promise.
andThenHandlerNoReturn(h, j) ==
    IF j.st = "rejected" THEN Reject(h, j.r.out, j.val)
    ELSE LET r2 == run(j.r.computation, j.val, j.r.rid, h)
         IN  IF Threw(r2) THEN Reject(r2.h, j.r.out, r2.error)
             ELSE Fulfil(r2.h, j.r.out, 0)

\* andThen's handler: output => computation.run(output).  The promise it
\* returns is a thenable, so the outer promise is resolved with it by a job.
andThenHandler(h, j) ==
    IF j.st = "rejected" THEN Reject(h, j.r.out, j.val)
    ELSE LET r2 == run(j.r.computation, j.val, j.r.rid, h)
         IN  IF Threw(r2) THEN Reject(r2.h, j.r.out, r2.error) ELSE
             [r2.h EXCEPT !.jobs = Append(@,
                 Job([k |-> "thenable", out |-> j.r.out, rid |-> j.r.rid],
                     "fulfilled", r2.p))]

\* resolveThenable never subscribing to the thenable.
resolveThenableDropped(h, j) == h

\* NewPromiseResolveThenableJob: thenable.then(resolve, reject)
resolveThenable(h, j) ==
    Then(h, j.val, [k |-> "adopt", out |-> j.r.out, rid |-> j.r.rid])

\* the resolve / reject pair of the outer promise
adopt(h, j) == SettlePromise(h, j.r.out, j.st, j.val)

\* second's handler: output => [input[0], output]
secondHandler(h, j) ==
    IF j.st = "rejected" THEN Reject(h, j.r.out, j.val)
    ELSE Fulfil(h, j.r.out, <<j.r.input[1], j.val>>)

\* firstHandler with the two slots exchanged.
firstHandlerSwapped(h, j) ==
    IF j.st = "rejected" THEN Reject(h, j.r.out, j.val)
    ELSE Fulfil(h, j.r.out, <<j.r.input[2], j.val>>)

\* first's handler: output => [output, input[1]]
firstHandler(h, j) ==
    IF j.st = "rejected" THEN Reject(h, j.r.out, j.val)
    ELSE Fulfil(h, j.r.out, <<j.val, j.r.input[2]>>)

\* split, after the await: return [result, result];
splitAwait(h, j) ==
    IF j.st = "rejected" THEN Reject(h, j.r.out, j.val)
    ELSE Fulfil(h, j.r.out, <<j.val, j.val>>)

\* add, case 'LEFT', after the await: return { kind: 'LEFT', value: result1 };
addAwaitLeft(h, j) ==
    IF j.st = "rejected" THEN Reject(h, j.r.out, j.val)
    ELSE Fulfil(h, j.r.out, Left(j.val))

\* addAwaitRight tagging its result LEFT.
addAwaitRightAsLeft(h, j) ==
    IF j.st = "rejected" THEN Reject(h, j.r.out, j.val)
    ELSE Fulfil(h, j.r.out, Left(j.val))

\* add, case 'RIGHT', after the await: return { kind: 'RIGHT', value: result2 };
addAwaitRight(h, j) ==
    IF j.st = "rejected" THEN Reject(h, j.r.out, j.val)
    ELSE Fulfil(h, j.r.out, Right(j.val))

\* mapOutputHandler keeping the result when the mapper throws.
mapOutputHandlerSwallow(h, j) ==
    IF j.st = "rejected" THEN Reject(h, j.r.out, j.val)
    ELSE LET m == apply(j.r.mapper, j.val, j.r.rid, h)
         IN  IF Threw(m) THEN Fulfil(m.h, j.r.out, j.val)
             ELSE Fulfil(m.h, j.r.out, m.val)

\* mapOutputHandler applying the mapper to its own result again.
mapOutputHandlerTwice(h, j) ==
    IF j.st = "rejected" THEN Reject(h, j.r.out, j.val)
    ELSE LET m == apply(j.r.mapper, j.val, j.r.rid, h)
         IN  IF Threw(m) THEN Reject(m.h, j.r.out, m.error)
             ELSE Fulfil(m.h, j.r.out, Mapped(j.r.mapper, m.val))

\* mapOutput's handler: result => mapper(result).  It is the fulfilment
\* handler only: a rejection passes to the derived promise, and an
\* exception of the mapper rejects it.
mapOutputHandler(h, j) ==
    IF j.st = "rejected" THEN Reject(h, j.r.out, j.val)
    ELSE LET m == apply(j.r.mapper, j.val, j.r.rid, h)
         IN  IF Threw(m) THEN Reject(m.h, j.r.out, m.error)
             ELSE Fulfil(m.h, j.r.out, m.val)

\* left, case 'LEFT', after the await: return { kind: 'LEFT', value: result1 };
leftAwaitRun(h, j) ==
    IF j.st = "rejected" THEN Reject(h, j.r.out, j.val)
    ELSE Fulfil(h, j.r.out, Left(j.val))

\* left, case 'RIGHT', after the await: return { kind: 'RIGHT', value: result2 };
leftAwaitPass(h, j) ==
    IF j.st = "rejected" THEN Reject(h, j.r.out, j.val)
    ELSE Fulfil(h, j.r.out, Right(j.val))

\* right, case 'LEFT', after the await: return { kind: 'LEFT', value: result1 };
rightAwaitPass(h, j) ==
    IF j.st = "rejected" THEN Reject(h, j.r.out, j.val)
    ELSE Fulfil(h, j.r.out, Left(j.val))

\* right, case 'RIGHT', after the await: return { kind: 'RIGHT', value: result2 };
rightAwaitRun(h, j) ==
    IF j.st = "rejected" THEN Reject(h, j.r.out, j.val)
    ELSE Fulfil(h, j.r.out, Right(j.val))

----------------------------------------------------------------------------
\* The state machine

heap == [promises |-> promises, jobs |-> jobs, calls |-> calls,
         counter |-> counter, applied |-> applied]

Commit(h) ==
    /\ promises' = h.promises
    /\ jobs' = h.jobs
    /\ calls' = h.calls
    /\ counter' = h.counter
    /\ applied' = h.applied

Init ==
    /\ program \in 1..Len(Programs)
    /\ runs = <<>>
    /\ promises = <<>>
    /\ jobs = <<>>
    /\ calls = <<>>
    /\ counter = 0
    /\ applied = <<>>
    /\ built = 0

\* A constructor that calls the function it is given.
constructEager(c, h) == runLeaf(C, 0, 0, h).h

\* constructor(fun) { this.run = fun; }  Every combinator is
\* `new Computation(closure)`: building a pipeline stores functions and
\* leaves the heap as it is.
construct(c, h) == h

\* The caller builds the next pipeline of the program.
Construct ==
    /\ built < Len(pipelines)
    /\ built' = built + 1
    /\ Commit(construct(pipelines[built + 1].c, heap))
    /\ UNCHANGED <<program, runs>>

\* What the caller of c.run(input) gets: the promise, or the exception.
Called(c, input, r) ==
    IF Threw(r)
    THEN [c |-> c, input |-> input, p |-> 0, threw |-> TRUE, error |-> r.error]
    ELSE [c |-> c, input |-> input, p |-> r.p, threw |-> FALSE, error |-> 0]

\* The leaf computations pipeline c is built from.
RECURSIVE Leaves(_)
Leaves(c) ==
    CASE c.op = "leaf" -> 1
      [] c.op = "merge" -> 0
      [] c.op \in {"mapOutput", "mapInput"} -> Leaves(c.this)
      [] c.op \in {"first", "second", "split", "left", "right"} ->
            Leaves(c.computation)
      [] c.op \in {"branch", "pair", "andThen", "add", "fanIn"} ->
            Leaves(c.this) + Leaves(c.computation)

\* The leaf computations of the pipelines run so far.
RECURSIVE Load(_)
Load(rs) == IF rs = <<>> THEN 0 ELSE Leaves(Head(rs).c) + Load(Tail(rs))

\* A caller can call run on pipeline c.
Room(c) ==
    /\ Len(runs) < MaxRuns
    /\ Len(jobs) < MaxJobs
    /\ Load(runs) + Leaves(c) <= MaxLeaves

\* A caller calls c.run(input) on one of the pipelines built.
Start ==
    /\ \E k \in 1..built : \E input \in pipelines[k].inputs :
          LET c == pipelines[k].c
              r == run(c, input, Len(runs) + 1, heap)
          IN  /\ Room(c)
              /\ runs' = Append(runs, Called(c, input, r))
              /\ Commit(r.h)
    /\ UNCHANGED <<program, built>>

\* A caller calls Computation.runLeft(c, value) on one of the pipelines.
RunLeft ==
    /\ \E k \in 1..built : \E value \in Plain :
          LET c == pipelines[k].c
              r == runLeft(c, value, Len(runs) + 1, heap)
          IN  /\ c.op \in {"add", "fanIn"}
              /\ Room(c)
              /\ runs' = Append(runs, Called(c, Left(value), r))
              /\ Commit(r.h)
    /\ UNCHANGED <<program, built>>

\* A caller calls Computation.runRight(c, value) on one of the pipelines.
RunRight ==
    /\ \E k \in 1..built : \E value \in Plain :
          LET c == pipelines[k].c
              r == runRight(c, value, Len(runs) + 1, heap)
          IN  /\ c.op \in {"add", "fanIn"}
              /\ Room(c)
              /\ runs' = Append(runs, Called(c, Right(value), r))
              /\ Commit(r.h)
    /\ UNCHANGED <<program, built>>

\* The log notes the order in which the leaf operations of one run settle:
\* calls[i].at is 0 while the i-th invocation is pending, then its rank.
Rank(i) ==
    1 + Cardinality({j \in 1..Len(calls) :
                        calls[j].rid = calls[i].rid /\ calls[j].at > 0})
Settling(i) == [heap EXCEPT !.calls[i].at = Rank(i)]

\* The asynchronous operation of a leaf succeeds.
LeafResolves ==
    /\ \E i \in 1..Len(calls) :
          /\ Len(jobs) < MaxJobs
          /\ promises[calls[i].p].st = "pending"
          /\ Commit(Fulfil(Settling(i), calls[i].p, calls[i].out))
    /\ UNCHANGED <<program, runs, built>>

\* The asynchronous operation of a leaf fails.
LeafRejects ==
    /\ \E i \in 1..Len(calls) :
          /\ Len(jobs) < MaxJobs
          /\ promises[calls[i].p].st = "pending"
          /\ Commit(Reject(Settling(i), calls[i].p, LeafErr(calls[i].leaf, i)))
    /\ UNCHANGED <<program, runs, built>>

\* The host runs the job at the head of the queue.
Dequeued == [heap EXCEPT !.jobs = Tail(@)]
NextJob(k) == jobs # <<>> /\ Head(jobs).r.k = k

BranchAwait1 ==
    /\ NextJob("branch1")
    /\ Commit(branchAwait1(Dequeued, Head(jobs)))
    /\ UNCHANGED <<program, runs, built>>

BranchAwait2 ==
    /\ NextJob("branch2")
    /\ Commit(branchAwait2(Dequeued, Head(jobs)))
    /\ UNCHANGED <<program, runs, built>>

AllElement ==
    /\ NextJob("all")
    /\ Commit(allElement(Dequeued, Head(jobs)))
    /\ UNCHANGED <<program, runs, built>>

AndThenHandler ==
    /\ NextJob("andThen")
    /\ Commit(andThenHandler(Dequeued, Head(jobs)))
    /\ UNCHANGED <<program, runs, built>>

ResolveThenable ==
    /\ NextJob("thenable")
    /\ Commit(resolveThenable(Dequeued, Head(jobs)))
    /\ UNCHANGED <<program, runs, built>>

Adopt ==
    /\ NextJob("adopt")
    /\ Commit(adopt(Dequeued, Head(jobs)))
    /\ UNCHANGED <<program, runs, built>>

SecondHandler ==
    /\ NextJob("second")
    /\ Commit(secondHandler(Dequeued, Head(jobs)))
    /\ UNCHANGED <<program, runs, built>>

FirstHandler ==
    /\ NextJob("first")
    /\ Commit(firstHandler(Dequeued, Head(jobs)))
    /\ UNCHANGED <<program, runs, built>>

SplitAwait ==
    /\ NextJob("split")
    /\ Commit(splitAwait(Dequeued, Head(jobs)))
    /\ UNCHANGED <<program, runs, built>>

AddAwaitLeft ==
    /\ NextJob("addLeft")
    /\ Commit(addAwaitLeft(Dequeued, Head(jobs)))
    /\ UNCHANGED <<program, runs, built>>

AddAwaitRight ==
    /\ NextJob("addRight")
    /\ Commit(addAwaitRight(Dequeued, Head(jobs)))
    /\ UNCHANGED <<program, runs, built>>

MapOutputHandler ==
    /\ NextJob("mapOutput")
    /\ Commit(mapOutputHandler(Dequeued, Head(jobs)))
    /\ UNCHANGED <<program, runs, built>>

LeftAwaitRun ==
    /\ NextJob("leftRun")
    /\ Commit(leftAwaitRun(Dequeued, Head(jobs)))
    /\ UNCHANGED <<program, runs, built>>

LeftAwaitPass ==
    /\ NextJob("leftPass")
    /\ Commit(leftAwaitPass(Dequeued, Head(jobs)))
    /\ UNCHANGED <<program, runs, built>>

RightAwaitPass ==
    /\ NextJob("rightPass")
    /\ Commit(rightAwaitPass(Dequeued, Head(jobs)))
    /\ UNCHANGED <<program, runs, built>>

RightAwaitRun ==
    /\ NextJob("rightRun")
    /\ Commit(rightAwaitRun(Dequeued, Head(jobs)))
    /\ UNCHANGED <<program, runs, built>>

Next ==
    \/ Construct
    \/ Start
    \/ RunLeft
    \/ RunRight
    \/ LeafResolves
    \/ LeafRejects
    \/ BranchAwait1
    \/ BranchAwait2
    \/ AllElement
    \/ AndThenHandler
    \/ ResolveThenable
    \/ Adopt
    \/ SecondHandler
    \/ FirstHandler
    \/ SplitAwait
    \/ AddAwaitLeft
    \/ AddAwaitRight
    \/ MapOutputHandler
    \/ LeftAwaitRun
    \/ LeftAwaitPass
    \/ RightAwaitPass
    \/ RightAwaitRun

Spec == Init /\ [][Next]_vars

\* The host runs every reaction job that is queued, and the asynchronous
\* operation of a leaf that has been invoked ends, one way or the other.
RunJob ==
    \/ BranchAwait1
    \/ BranchAwait2
    \/ AllElement
    \/ AndThenHandler
    \/ ResolveThenable
    \/ Adopt
    \/ SecondHandler
    \/ FirstHandler
    \/ SplitAwait
    \/ AddAwaitLeft
    \/ AddAwaitRight
    \/ MapOutputHandler
    \/ LeftAwaitRun
    \/ LeftAwaitPass
    \/ RightAwaitPass
    \/ RightAwaitRun

\* What every job and every end of a leaf operation changes: the kinds of
\* the jobs queued, the states of the promises and their reactions, the
\* lengths of the logs.
progress ==
    << [i \in 1..Len(jobs) |-> jobs[i].r.k],
       [p \in 1..Len(promises) |-> <<promises[p].st, Len(promises[p].rs)>>],
       Len(calls), Len(applied) >>

FairSpec ==
    /\ Init /\ [][Next]_vars
    /\ WF_progress(RunJob)
    /\ WF_progress(LeafResolves \/ LeafRejects)

----------------------------------------------------------------------------
\* Reading the state

RunIds == 1..Len(runs)
RunsOf(c) == {r \in RunIds : runs[r].c = c}
CallIds == 1..Len(calls)
St(p) == promises[p].st
Val(p) == promises[p].val

\* The invocations of leaf `name` made by run r.
CallsOf(r, name) == {i \in CallIds : calls[i].rid = r /\ calls[i].leaf = name}
CallsIn(r) == {i \in CallIds : calls[i].rid = r}

\* The invocations of mappers made by run r.
AppliedIn(r) == {k \in 1..Len(applied) : applied[k].rid = r}
TheCall(r, name) == CHOOSE i \in CallsOf(r, name) : TRUE

Fulfilled(i) == St(calls[i].p) = "fulfilled"
Rejected(i) == St(calls[i].p) = "rejected"

\* Nothing of run r is left to happen: no job waits and none of its leaf
\* operations is pending.
Quiet(r) == jobs = <<>> /\ \A i \in CallsIn(r) : St(calls[i].p) # "pending"

\* Run r is, or can only become, the failure `error`.
FailsWith(r, error) ==
    /\ St(runs[r].p) # "fulfilled"
    /\ St(runs[r].p) = "rejected" => Val(runs[r].p) = error
    /\ Quiet(r) => St(runs[r].p) = "rejected"

\* Run r is, or can only become, the success `value`.
SucceedsWith(r, value) ==
    /\ St(runs[r].p) # "rejected"
    /\ St(runs[r].p) = "fulfilled" => Val(runs[r].p) = value
    /\ Quiet(r) => St(runs[r].p) = "fulfilled"

----------------------------------------------------------------------------
\* C1: a run of a.branch(b) on x invokes b's wrapped function on x in the
\* same step as a's, while a's result is still pending: whenever a has
\* been invoked for a run, b has been invoked for it on the same input.
C1_BranchStartsBoth ==
    \A r \in RunsOf(branch(A, B)) :
            CallsOf(r, "a") # {} =>
                \E i \in CallsOf(r, "b") : calls[i].arg = runs[r].input

\* C2: a run of a.pair(b) on [x, y] has invoked a on x and b on y, once each,
\* as soon as it exists, so before any result of either is consumed.
C2_PairStartsBoth ==
    \A r \in RunsOf(pair(A, B)) :
            /\ Cardinality(CallsOf(r, "a")) = 1
            /\ Cardinality(CallsOf(r, "b")) = 1
            /\ calls[TheCall(r, "a")].arg = runs[r].input[1]
            /\ calls[TheCall(r, "b")].arg = runs[r].input[2]

\* A pair run whose two leaf operations are both in flight.
C2_Witness ==
    \E r \in RunsOf(pair(A, B)) :
          /\ CallsOf(r, "a") # {} /\ CallsOf(r, "b") # {}
          /\ \A i \in CallsIn(r) : St(calls[i].p) = "pending"

\* C3: in a run of first.andThen(second), second's wrapped function is
\* invoked only once first's result has resolved successfully, and with that
\* result as its input.
C3_AndThenOrdered ==
    \A r \in RunsOf(andThen(A, B)) :
            \A i \in CallsOf(r, "b") :
                /\ CallsOf(r, "a") # {}
                /\ Fulfilled(TheCall(r, "a"))
                /\ calls[i].arg = Val(calls[TheCall(r, "a")].p)
                /\ calls[i].arg = LeafOut("a", runs[r].input, 0)

\* The second stage of an andThen run has been started.
C3_Witness ==
    \E r \in RunsOf(andThen(A, B)) : CallsOf(r, "b") # {}

\* C4: in a run of a.andThen(b), if a fails the run fails with a's error
\* and b is never invoked; if a succeeds and b fails the run fails with b's
\* error.
C4_AndThenFailure ==
    \A r \in RunsOf(andThen(A, B)) :
            LET a == TheCall(r, "a") IN
            /\ Rejected(a) =>
                  /\ CallsOf(r, "b") = {}
                  /\ FailsWith(r, LeafErr("a", a))
            /\ \A b \in CallsOf(r, "b") :
                  Rejected(b) => FailsWith(r, LeafErr("b", b))

\* One run has failed with a's error and another with b's.
C4_Witness ==
    \E r1, r2 \in RunsOf(andThen(A, B)) :
          /\ Rejected(TheCall(r1, "a"))
          /\ St(runs[r1].p) = "rejected"
          /\ CallsOf(r2, "b") # {}
          /\ Rejected(TheCall(r2, "b"))
          /\ St(runs[r2].p) = "rejected"

\* C5: a run of a.branch(b) in which both a and b succeed resolves to the
\* 2-tuple [a's output, b's output], in that slot order.
C5_BranchShape ==
    \A r \in RunsOf(branch(A, B)) :
            /\ (/\ CallsOf(r, "a") # {} /\ Fulfilled(TheCall(r, "a"))
                /\ CallsOf(r, "b") # {} /\ Fulfilled(TheCall(r, "b")))
               => SucceedsWith(r, <<Val(calls[TheCall(r, "a")].p),
                                    Val(calls[TheCall(r, "b")].p)>>)
            /\ St(runs[r].p) = "fulfilled" =>
                  Val(runs[r].p) = <<LeafOut("a", runs[r].input, 0),
                                     LeafOut("b", runs[r].input, 0)>>

\* A branch run has resolved.
C5_Witness ==
    \E r \in RunsOf(branch(A, B)) : St(runs[r].p) = "fulfilled"

\* The failed leaf operation of run r that failed first.
FirstFailure(r) ==
    CHOOSE i \in CallsIn(r) :
        /\ Rejected(i)
        /\ \A j \in CallsIn(r) : Rejected(j) => calls[i].at <= calls[j].at

\* C6: a run of branch(a,b) or pair(a,b) in which an operand fails never
\* resolves successfully, and fails with the error of the operand that
\* failed first in time, whatever the other operand does.
C6_FirstFailureWins ==
    \A r \in RunsOf(branch(A, B)) \cup RunsOf(pair(A, B)) :
        (\E i \in CallsIn(r) : Rejected(i)) =>
            FailsWith(r, LeafErr(calls[FirstFailure(r)].leaf, FirstFailure(r)))

\* Both operands of a pair run failed, b before a, and the run failed with
\* b's error.
C6_Witness ==
    \E r \in RunsOf(pair(A, B)) :
        /\ Rejected(TheCall(r, "a")) /\ Rejected(TheCall(r, "b"))
        /\ calls[TheCall(r, "b")].at < calls[TheCall(r, "a")].at
        /\ St(runs[r].p) = "rejected"
        /\ Val(runs[r].p) = LeafErr("b", TheCall(r, "b"))

\* C7: c increments the shared counter on each invocation.  One run of
\* split(c) invokes c exactly once, and where c succeeds resolves to [r, r],
\* r being that one result; one run of c.branch(c) where c succeeds invokes
\* c exactly twice and resolves to the two results.
C7_SplitOnceBranchTwice ==
    /\ counter = Cardinality({i \in CallIds : calls[i].leaf = "c"})
    /\ \A r \in RunsOf(split(C)) :
          /\ Cardinality(CallsIn(r)) = 1
          /\ \A i \in CallsIn(r) :
                Fulfilled(i) => SucceedsWith(r, <<Val(calls[i].p), Val(calls[i].p)>>)
    /\ \A r \in RunsOf(branch(C, C)) :
          /\ Cardinality(CallsIn(r)) <= 2
          /\ (\A i \in CallsIn(r) : Fulfilled(i)) =>
                /\ St(runs[r].p) # "rejected"
                /\ Quiet(r) => St(runs[r].p) = "fulfilled"
          /\ St(runs[r].p) = "fulfilled" =>
                /\ Cardinality(CallsIn(r)) = 2
                /\ \E i, j \in CallsIn(r) :
                      i < j /\ Val(runs[r].p) = <<Val(calls[i].p), Val(calls[j].p)>>

\* A run of split(c) resolved to twice the same value and a run of
\* c.branch(c) to two different values, after three invocations of c.
C7_Witness ==
    /\ counter = 3
    /\ \E r \in RunsOf(split(C)) :
          St(runs[r].p) = "fulfilled" /\ Val(runs[r].p)[1] = Val(runs[r].p)[2]
    /\ \E r \in RunsOf(branch(C, C)) :
          St(runs[r].p) = "fulfilled" /\ Val(runs[r].p)[1] # Val(runs[r].p)[2]

\* The runs on LEFT and on RIGHT inputs.
RunsOn(kind) == {r \in RunIds : runs[r].input.kind = kind}
Routed == RunsOf(add(A, B)) \cup RunsOf(fanIn(A, B))

\* C8: every run of a.add(b) or a.fanIn(b) makes exactly one leaf
\* invocation, of a on the value of a LEFT input and of b on the value of a
\* RIGHT input; so a's invocations number the LEFT inputs and b's the RIGHT.
C8_RoutingExclusive ==
    /\ \A r \in Routed :
          LET name == IF runs[r].input.kind = "LEFT" THEN "a" ELSE "b" IN
          /\ Cardinality(CallsIn(r)) = 1
          /\ \A i \in CallsIn(r) :
                calls[i].leaf = name /\ calls[i].arg = runs[r].input.value
    /\ (Routed # {} /\ Routed = RunIds) =>
          /\ Cardinality({i \in CallIds : calls[i].leaf = "a"})
                = Cardinality(RunsOn("LEFT"))
          /\ Cardinality({i \in CallIds : calls[i].leaf = "b"})
                = Cardinality(RunsOn("RIGHT"))

\* A LEFT and a RIGHT input have both been run, through fanIn.
C8_Witness ==
    /\ RunsOf(fanIn(A, B)) = RunIds
    /\ RunsOn("LEFT") # {} /\ RunsOn("RIGHT") # {}

\* C9: a run of a.add(b) resolves to the selected operand's output under
\* the input's tag, a run of a.fanIn(b) to the selected operand's output as
\* it is; either fails with the selected operand's error.
C9_RoutingResult ==
    \A r \in Routed :
        \A i \in CallsIn(r) :
            LET out == LeafOut(calls[i].leaf, runs[r].input.value, 0) IN
            /\ Rejected(i) => FailsWith(r, LeafErr(calls[i].leaf, i))
            /\ Fulfilled(i) =>
                  /\ Val(calls[i].p) = out
                  /\ SucceedsWith(r,
                        IF runs[r].c.op = "fanIn" THEN out
                        ELSE [kind |-> runs[r].input.kind, value |-> out])

\* add has resolved a RIGHT input and has failed on a LEFT one.
C9_Witness ==
    \E r1, r2 \in RunsOf(add(A, B)) :
        /\ runs[r1].input.kind = "RIGHT" /\ St(runs[r1].p) = "fulfilled"
        /\ runs[r2].input.kind = "LEFT" /\ St(runs[r2].p) = "rejected"

\* C10: a run of first(c) on [x, e] invokes c once, on x, and resolves to
\* [c's output, e]; a run of second(c) on [e, x] invokes c once, on x, and
\* resolves to [e, c's output].
C10_PositionalLifting ==
    /\ \A r \in RunsOf(first(A)) :
          /\ Cardinality(CallsIn(r)) = 1
          /\ \A i \in CallsIn(r) :
                /\ calls[i].leaf = "a" /\ calls[i].arg = runs[r].input[1]
                /\ Fulfilled(i) =>
                      SucceedsWith(r, <<Val(calls[i].p), runs[r].input[2]>>)
    /\ \A r \in RunsOf(second(A)) :
          /\ Cardinality(CallsIn(r)) = 1
          /\ \A i \in CallsIn(r) :
                /\ calls[i].leaf = "a" /\ calls[i].arg = runs[r].input[2]
                /\ Fulfilled(i) =>
                      SucceedsWith(r, <<runs[r].input[1], Val(calls[i].p)>>)

\* A run of first(c) has resolved.
C10_Witness ==
    \E r \in RunsOf(first(A)) : St(runs[r].p) = "fulfilled"

----------------------------------------------------------------------------
MapsA == {"f", "boom"}

\* C11: a run of c.mapOutput(mapper): while c has not succeeded the mapper
\* is not invoked, and when c fails the run fails with c's error; when c
\* succeeds the mapper is applied exactly once, to c's output, and the run
\* succeeds with what it returns, or fails with the error it threw.
C11_MapOutput ==
    \A m \in MapsA : \A r \in RunsOf(mapOutput(A, m)) :
        LET i == TheCall(r, "a")
        IN  /\ Cardinality(CallsIn(r)) = 1
            /\ Cardinality(AppliedIn(r)) <= 1
            /\ \A k \in AppliedIn(r) :
                    /\ Fulfilled(i)
                    /\ applied[k].mapper = m
                    /\ applied[k].arg = calls[i].out
                    /\ IF Throws(m) THEN FailsWith(r, MapErr(m, k))
                       ELSE SucceedsWith(r, Mapped(m, calls[i].out))
            /\ Rejected(i) => AppliedIn(r) = {} /\ FailsWith(r, LeafErr("a", i))
            /\ Fulfilled(i) /\ Quiet(r) => AppliedIn(r) # {}
            /\ AppliedIn(r) = {} => St(runs[r].p) # "fulfilled"

\* c failed in one run; in another c succeeded and the mapper threw.
C11_Witness ==
    \E r1, r2 \in RunsOf(mapOutput(A, "boom")) :
        /\ Rejected(TheCall(r1, "a")) /\ St(runs[r1].p) = "rejected"
        /\ \E k \in AppliedIn(r2) : St(runs[r2].p) = "rejected"
                                     /\ Val(runs[r2].p) = MapErr("boom", k)

----------------------------------------------------------------------------
\* C12: a run of c.mapInput(mapper) on x applies the mapper to x before c
\* runs and c receives what it returned; when the mapper throws, c is not
\* invoked and run returns a promise that fails with the error thrown.
C12_MapInput ==
    \A m \in MapsA : \A r \in RunsOf(mapInput(A, m)) :
        /\ \E k \in AppliedIn(r) :
              /\ AppliedIn(r) = {k}
              /\ applied[k].mapper = m
              /\ applied[k].arg = runs[r].input
              /\ IF Throws(m)
                 THEN /\ CallsIn(r) = {}
                      /\ ~runs[r].threw
                      /\ FailsWith(r, MapErr(m, k))
                 ELSE /\ \E i \in CallsIn(r) :
                            /\ CallsIn(r) = {i}
                            /\ calls[i].leaf = "a"
                            /\ calls[i].arg = Mapped(m, runs[r].input)

----------------------------------------------------------------------------
\* The errors produced in run r: those its failed leaf operations failed
\* with and those its mappers threw.
ErrorsIn(r) ==
    {LeafErr(calls[i].leaf, i) : i \in {i \in CallsIn(r) : Rejected(i)}}
    \cup {MapErr(applied[k].mapper, k) : k \in {k \in AppliedIn(r) : applied[k].threw}}

Failed(r) == runs[r].threw \/ St(runs[r].p) = "rejected"
Failure(r) == IF runs[r].threw THEN runs[r].error ELSE Val(runs[r].p)

\* C13: the failure of a run of any pipeline is one of the errors produced
\* in that run by a leaf operation or a mapper, unchanged; a run in which
\* such an error was produced does not succeed, and fails once nothing is
\* left to happen; a leaf that failed is not invoked again in that run.
C13_FailuresAreLeafErrors ==
    \A r \in RunIds :
        /\ Failed(r) => Failure(r) \in ErrorsIn(r)
        /\ ErrorsIn(r) # {} => /\ runs[r].threw \/ St(runs[r].p) # "fulfilled"
                               /\ Quiet(r) => Failed(r)
        /\ \A i \in CallsIn(r) : Rejected(i) =>
              \A j \in CallsIn(r) : j > i => calls[j].leaf # calls[i].leaf

\* In one run the first stage failed and the run with its error; in another
\* a mapper threw inside the second stage and the run failed with that.
C13_Witness ==
    \E r1, r2 \in RunsOf(andThen(A, mapInput(B, "boom"))) :
        /\ \E i \in CallsOf(r1, "a") :
              St(runs[r1].p) = "rejected" /\ Val(runs[r1].p) = LeafErr("a", i)
        /\ \E k \in AppliedIn(r2) :
              St(runs[r2].p) = "rejected" /\ Val(runs[r2].p) = MapErr("boom", k)

----------------------------------------------------------------------------
\* The leaf invocation a run of c on input begins with, <<name, arg>>, or
\* <<>> when the run begins with none.
RECURSIVE Entry(_, _)
Entry(c, input) ==
    CASE c.op = "leaf" -> <<c.name, input>>
      [] c.op \in {"branch", "andThen", "mapOutput"} -> Entry(c.this, input)
      [] c.op = "pair" -> Entry(c.this, input[1])
      [] c.op = "first" -> Entry(c.computation, input[1])
      [] c.op = "second" -> Entry(c.computation, input[2])
      [] c.op = "split" -> Entry(c.computation, input)
      [] c.op \in {"add", "fanIn"} ->
            IF input.kind = "LEFT" THEN Entry(c.this, input.value)
            ELSE Entry(c.computation, input.value)
      [] c.op = "mapInput" ->
            IF Throws(c.mapper) THEN <<>>
            ELSE Entry(c.this, Mapped(c.mapper, input))
      [] c.op = "left" ->
            IF input.kind = "LEFT" THEN Entry(c.computation, input.value) ELSE <<>>
      [] c.op = "right" ->
            IF input.kind = "RIGHT" THEN Entry(c.computation, input.value) ELSE <<>>
      [] c.op = "merge" -> <<>>

\* C14: building pipelines invokes nothing: while no run has been called
\* no wrapped function or mapper has been invoked and no promise exists,
\* and every invocation there is belongs to a run; every run invokes the
\* leaf it begins with itself, whatever earlier runs have done.
C14_BuildingRunsNothing ==
    /\ runs = <<>> =>
          calls = <<>> /\ applied = <<>> /\ promises = <<>> /\ jobs = <<>>
                       /\ counter = 0
    /\ \A i \in CallIds : calls[i].rid \in RunIds
    /\ \A k \in 1..Len(applied) : applied[k].rid \in RunIds
    /\ \A r \in RunIds :
          LET e == Entry(runs[r].c, runs[r].input)
          IN  Len(e) > 0 =>
                \E i \in CallsIn(r) : calls[i].leaf = e[1] /\ calls[i].arg = e[2]

\* Two pipelines are built; the second is run twice on the same input, the
\* second time after the first run has succeeded, and invokes c both times.
C14_Witness ==
    /\ built = 2
    /\ \E r1, r2 \in RunsOf(branch(C, C)) :
          /\ r1 < r2
          /\ runs[r1].input = runs[r2].input
          /\ St(runs[r1].p) = "fulfilled"
          /\ CallsOf(r1, "c") # {} /\ CallsOf(r2, "c") # {}
          /\ \A i \in CallsOf(r1, "c") : \A j \in CallsOf(r2, "c") : i < j

----------------------------------------------------------------------------
\* What run r's own log says its result is.  Expected(c, input, cs, ms) is
\* the result of c on input, [st, val, at, cs, ms], read from the leaf
\* invocations cs and the mapper invocations ms of one run, in the order the
\* run made them: st is "pending" while an invocation it depends on is
\* missing or pending, and "threw" for an exception out of run; at is the
\* rank of the leaf operation a failure comes from; cs and ms are the
\* invocations not used.
RECURSIVE TakeCall(_, _)
TakeCall(cs, name) ==
    IF cs = <<>> THEN [i |-> 0, rest |-> <<>>]
    ELSE IF calls[Head(cs)].leaf = name THEN [i |-> Head(cs), rest |-> Tail(cs)]
    ELSE LET t == TakeCall(Tail(cs), name)
         IN  [i |-> t.i, rest |-> <<Head(cs)>> \o t.rest]

RECURSIVE TakeApplied(_, _)
TakeApplied(ms, mapper) ==
    IF ms = <<>> THEN [k |-> 0, rest |-> <<>>]
    ELSE IF applied[Head(ms)].mapper = mapper
         THEN [k |-> Head(ms), rest |-> Tail(ms)]
    ELSE LET t == TakeApplied(Tail(ms), mapper)
         IN  [k |-> t.k, rest |-> <<Head(ms)>> \o t.rest]

Pending(cs, ms) == [st |-> "pending", val |-> 0, at |-> 0, cs |-> cs, ms |-> ms]
Caught(e) == IF e.st = "threw" THEN [e EXCEPT !.st = "rejected"] ELSE e
With(e, value) == IF e.st = "fulfilled" THEN [e EXCEPT !.val = value] ELSE e

ExpectedMapper(mapper, arg, at, cs, ms) ==
    LET t == TakeApplied(ms, mapper)
    IN  IF t.k = 0 THEN Pending(cs, ms)
        ELSE IF applied[t.k].threw
             THEN [st |-> "threw", val |-> MapErr(mapper, t.k), at |-> at,
                   cs |-> cs, ms |-> t.rest]
             ELSE [st |-> "fulfilled", val |-> Mapped(mapper, arg), at |-> at,
                   cs |-> cs, ms |-> t.rest]

RECURSIVE Expected(_, _, _, _)
ExpectedLeaf(c, input, cs, ms) ==
    LET t == TakeCall(cs, c.name)
    IN  IF t.i = 0 THEN Pending(cs, ms)
        ELSE [st |-> St(calls[t.i].p), val |-> Val(calls[t.i].p),
              at |-> calls[t.i].at, cs |-> t.rest, ms |-> ms]

ExpectedBranch(c, input, cs, ms) ==
    LET e1 == Caught(Expected(c.this, input, cs, ms))
        e2 == Caught(Expected(c.computation, input, e1.cs, e1.ms))
    IN  IF e1.st # "fulfilled" THEN e1 ELSE With(e2, <<e1.val, e2.val>>)

ExpectedPair(c, input, cs, ms) ==
    LET e1 == Expected(c.this, input[1], cs, ms)
        e2 == Expected(c.computation, input[2], e1.cs, e1.ms)
    IN  IF e1.st = "threw" THEN e1
        ELSE IF e2.st = "threw" THEN e2
        ELSE IF e1.st = "rejected" /\ (e2.st = "rejected" => e1.at < e2.at)
             THEN [e1 EXCEPT !.cs = e2.cs, !.ms = e2.ms]
        ELSE IF e2.st = "rejected" THEN e2
        ELSE IF e1.st = "fulfilled" THEN With(e2, <<e1.val, e2.val>>)
        ELSE Pending(e2.cs, e2.ms)

ExpectedAndThen(c, input, cs, ms) ==
    LET e1 == Expected(c.this, input, cs, ms)
    IN  IF e1.st # "fulfilled" THEN e1
        ELSE Caught(Expected(c.computation, e1.val, e1.cs, e1.ms))

ExpectedMapOutput(c, input, cs, ms) ==
    LET e1 == Expected(c.this, input, cs, ms)
    IN  IF e1.st # "fulfilled" THEN e1
        ELSE Caught(ExpectedMapper(c.mapper, e1.val, e1.at, e1.cs, e1.ms))

ExpectedMapInput(c, input, cs, ms) ==
    LET m == ExpectedMapper(c.mapper, input, 0, cs, ms)
    IN  IF m.st # "fulfilled" THEN m ELSE Expected(c.this, m.val, m.cs, m.ms)

ExpectedEither(c, input, cs, ms) ==
    LET onLeft == input.kind = "LEFT"
        e == CASE c.op = "add" ->
                    Caught(Expected(IF onLeft THEN c.this ELSE c.computation,
                                    input.value, cs, ms))
               [] c.op = "fanIn" ->
                    Expected(IF onLeft THEN c.this ELSE c.computation,
                             input.value, cs, ms)
               [] (c.op = "left" /\ onLeft) \/ (c.op = "right" /\ ~onLeft) ->
                    Caught(Expected(c.computation, input.value, cs, ms))
               [] OTHER ->
                    [st |-> "fulfilled", val |-> input.value, at |-> 0,
                     cs |-> cs, ms |-> ms]
    IN  IF c.op = "fanIn" THEN e
        ELSE IF onLeft THEN With(e, Left(e.val)) ELSE With(e, Right(e.val))

Expected(c, input, cs, ms) ==
    CASE c.op = "leaf"      -> ExpectedLeaf(c, input, cs, ms)
      [] c.op = "branch"    -> ExpectedBranch(c, input, cs, ms)
      [] c.op = "pair"      -> ExpectedPair(c, input, cs, ms)
      [] c.op = "andThen"   -> ExpectedAndThen(c, input, cs, ms)
      [] c.op = "mapOutput" -> ExpectedMapOutput(c, input, cs, ms)
      [] c.op = "mapInput"  -> ExpectedMapInput(c, input, cs, ms)
      [] c.op = "merge" ->
            ExpectedMapper(c.merger, <<input[1], input[2]>>, 0, cs, ms)
      [] c.op = "split" ->
            LET e == Caught(Expected(c.computation, input, cs, ms))
            IN  With(e, <<e.val, e.val>>)
      [] c.op = "first" ->
            LET e == Expected(c.computation, input[1], cs, ms)
            IN  With(e, <<e.val, input[2]>>)
      [] c.op = "second" ->
            LET e == Expected(c.computation, input[2], cs, ms)
            IN  With(e, <<input[1], e.val>>)
      [] c.op \in {"add", "fanIn", "left", "right"} ->
            ExpectedEither(c, input, cs, ms)

\* The invocations of run r, in the order it made them.
RECURSIVE Own(_, _, _)
Own(log, r, k) ==
    IF k > Len(log) THEN <<>>
    ELSE IF log[k].rid = r THEN <<k>> \o Own(log, r, k + 1)
    ELSE Own(log, r, k + 1)

ExpectedOf(r) ==
    Expected(runs[r].c, runs[r].input, Own(calls, r, 1), Own(applied, r, 1))

\* C15: with several runs in flight, of one pipeline or of pipelines that
\* share a leaf, the outcome of each run is the one its own input and its
\* own leaf and mapper invocations give: it has no outcome they do not
\* give, and when nothing is left to happen it has the one they give.
C15_RunsIndependent ==
    \A r \in RunIds :
        LET e == ExpectedOf(r)
        IN  IF runs[r].threw THEN e.st = "threw" /\ e.val = runs[r].error
            ELSE /\ e.st # "threw"
                 /\ St(runs[r].p) # "pending" =>
                        e.st = St(runs[r].p) /\ e.val = Val(runs[r].p)
                 /\ Quiet(r) => St(runs[r].p) = e.st

\* A run of c.branch(c) and a run of split(c) were in flight together, their
\* invocations of the shared leaf interleaved, and both have succeeded.
C15_Witness ==
    \E r1 \in RunsOf(branch(C, C)) : \E r2 \in RunsOf(split(C)) :
        /\ St(runs[r1].p) = "fulfilled" /\ St(runs[r2].p) = "fulfilled"
        /\ \E i, k \in CallsIn(r1) : \E j \in CallsIn(r2) : i < j /\ j < k

----------------------------------------------------------------------------
\* a.andThen(b).andThen(c) and a.andThen(b.andThen(c)), with a = split(A),
\* b = merge("plus") and c = B.
AssocLeft == andThen(andThen(split(A), merge("plus")), B)
AssocRight == andThen(split(A), andThen(merge("plus"), B))

\* The leaf invocations of run r with their arguments, and its mapper
\* invocations with theirs, in the order the run made them.
Invocations(r) ==
    LET cs == Own(calls, r, 1)
    IN  [k \in 1..Len(cs) |-> <<calls[cs[k]].leaf, calls[cs[k]].arg>>]
Applications(r) ==
    LET ms == Own(applied, r, 1)
    IN  [k \in 1..Len(ms) |-> <<applied[ms[k]].mapper, applied[ms[k]].arg>>]

AllSucceeded(r) == Quiet(r) /\ \A i \in CallsIn(r) : Fulfilled(i)

\* C16: a run of a.andThen(b).andThen(c) and a run of a.andThen(b.andThen(c))
\* on the same input, in which a, b and c succeeded, have both succeeded
\* with the same output after the same leaf invocations, in the same
\* order with the same arguments.
C16_AndThenAssociative ==
    \A r1 \in RunsOf(AssocLeft) : \A r2 \in RunsOf(AssocRight) :
        runs[r1].input = runs[r2].input /\ AllSucceeded(r1) /\ AllSucceeded(r2) =>
            /\ St(runs[r1].p) = "fulfilled" /\ St(runs[r2].p) = "fulfilled"
            /\ Val(runs[r1].p) = Val(runs[r2].p)
            /\ Invocations(r1) = Invocations(r2)
            /\ Len(Invocations(r1)) = 2
            /\ Applications(r1) = Applications(r2)

\* Both groupings have run on the same input and succeeded.
C16_Witness ==
    \E r1 \in RunsOf(AssocLeft) : \E r2 \in RunsOf(AssocRight) :
        /\ runs[r1].input = runs[r2].input
        /\ St(runs[r1].p) = "fulfilled" /\ St(runs[r2].p) = "fulfilled"
        /\ Val(runs[r1].p) = LeafOut("b", 2 * LeafOut("a", runs[r1].input, 0), 0)

----------------------------------------------------------------------------
\* c.mapOutput(f).mapOutput(g) and c.mapOutput(x => g(f(x))), with c = A.
Mapped2 == mapOutput(mapOutput(A, "f"), "g")
MappedOnce == mapOutput(A, "gf")

\* C17: a run of c.mapOutput(f).mapOutput(g) and a run of
\* c.mapOutput(x => g(f(x))) on the same input each invoke c once; when c
\* succeeded in both, both succeed with the same value, g(f(c's output));
\* when c failed in both, each fails with the error of its invocation of c.
C17_FunctorLaw ==
    \A r1 \in RunsOf(Mapped2) : \A r2 \in RunsOf(MappedOnce) :
        runs[r1].input = runs[r2].input =>
            LET i1 == TheCall(r1, "a")
                i2 == TheCall(r2, "a")
            IN  /\ Cardinality(CallsIn(r1)) = 1 /\ Cardinality(CallsIn(r2)) = 1
                /\ Fulfilled(i1) /\ Fulfilled(i2) /\ Quiet(r1) /\ Quiet(r2) =>
                      /\ St(runs[r1].p) = "fulfilled"
                      /\ St(runs[r2].p) = "fulfilled"
                      /\ Val(runs[r1].p) = Val(runs[r2].p)
                      /\ Val(runs[r1].p) = Mapped("g", Mapped("f", calls[i1].out))
                /\ Rejected(i1) /\ Rejected(i2) /\ Quiet(r1) /\ Quiet(r2) =>
                      /\ St(runs[r1].p) = "rejected"
                      /\ St(runs[r2].p) = "rejected"
                      /\ Val(runs[r1].p) = LeafErr("a", i1)
                      /\ Val(runs[r2].p) = LeafErr("a", i2)

\* Both forms have run on the same input and succeeded, f and g applied in
\* the one and their composition in the other.
C17_Witness ==
    \E r1 \in RunsOf(Mapped2) : \E r2 \in RunsOf(MappedOnce) :
        /\ runs[r1].input = runs[r2].input
        /\ St(runs[r1].p) = "fulfilled" /\ St(runs[r2].p) = "fulfilled"
        /\ Applications(r1) = << <<"f", calls[TheCall(r1, "a")].out>>,
                                 <<"g", calls[TheCall(r1, "a")].out + 1>> >>
        /\ Len(Applications(r2)) = 1

----------------------------------------------------------------------------
Mergers == {"plus", "sub"}
BranchMerged == andThen(branch(A, B), merge("sub"))

\* C18: a run of merge(merger) on [x, y] invokes the merger once, on x and
\* y in that order, invokes nothing else and has succeeded with what the
\* merger returned, 5 for plus on [2, 3]; a run of
\* a.branch(b).andThen(merge(merger)) in which a and b succeeded invokes
\* the merger once on their outputs and succeeds with what it returned.
C18_Merge ==
    /\ \A m \in Mergers : \A r \in RunsOf(merge(m)) :
          /\ ~runs[r].threw
          /\ CallsIn(r) = {}
          /\ Applications(r) = << <<m, <<runs[r].input[1], runs[r].input[2]>> >> >>
          /\ St(runs[r].p) = "fulfilled"
          /\ Val(runs[r].p) = Mapped(m, runs[r].input)
          /\ m = "plus" /\ runs[r].input = <<2, 3>> => Val(runs[r].p) = 5
    /\ \A r \in RunsOf(BranchMerged) :
          /\ Len(Applications(r)) <= 1
          /\ AllSucceeded(r) /\ CallsOf(r, "b") # {} =>
                LET out == <<calls[TheCall(r, "a")].out, calls[TheCall(r, "b")].out>>
                IN  /\ Applications(r) = << <<"sub", out>> >>
                    /\ St(runs[r].p) = "fulfilled"
                    /\ Val(runs[r].p) = out[1] - out[2]

\* plus has been merged on [2, 3], giving 5.
C18_Witness ==
    \E r \in RunsOf(merge("plus")) :
        runs[r].input = <<2, 3>> /\ St(runs[r].p) = "fulfilled"
                                 /\ Val(runs[r].p) = 5

----------------------------------------------------------------------------
\* The side of an Either that left(c) / right(c) computes on.
Side(c) == IF c.op = "left" THEN "LEFT" ELSE "RIGHT"

----------------------------------------------------------------------------
Returned(r) == ~runs[r].threw
Settled(r) == Returned(r) /\ St(runs[r].p) # "pending"

\* C20: when the host runs its jobs and the leaf operations invoked end,
\* from some point on every run that returned a promise is settled; and a
\* settled run stays as it is, the same state with the same value, in
\* every step.
C20_SettlesOnce ==
    /\ <>[](\A r \in RunIds : Returned(r) => Settled(r))
    /\ [][\A r \in RunIds :
            Settled(r) => /\ promises'[runs[r].p].st = St(runs[r].p)
                          /\ promises'[runs[r].p].val = Val(runs[r].p)]_vars

\* Of two runs of a pipeline of three stages one has succeeded and the
\* other has failed at its second leaf.
C20_Witness ==
    \E r1, r2 \in RunsOf(BranchMerged) :
        /\ St(runs[r1].p) = "fulfilled"
        /\ St(runs[r2].p) = "rejected"
        /\ \E i \in CallsOf(r2, "b") : Rejected(i)

====
